---- MODULE Spec2Model ----
(***************************************************************************)
(* PdfBuilder: the include resolver (preprocess_markdown), the build       *)
(* pipeline (run_build), the command loop (run, run_watch_mode) and the    *)
(* table-of-contents builder (build_toc_hierarchy, generate_toc_html).     *)
(*                                                                         *)
(* A path string is modelled by the sequence of its '/'-separated          *)
(* segments; an absolute path has "/" as its first segment.  A line of a   *)
(* Markdown file is a record whose kind says what line.trim() and the      *)
(* include regex see in it.                                                *)
(***************************************************************************)
EXTENDS Integers, Sequences, FiniteSets, TLC

VARIABLES
    fs,             \* the files on disk: canonical path -> lines, or NoFile
    source,         \* config.source
    watch,          \* the --watch flag
    syntax_theme,   \* config.syntax_theme
    pc,             \* position of run / run_watch_mode
    rx,             \* the watcher's channel: events not yet received
    changes,        \* number of file changes made so far
    phase,          \* position of run_build
    visited,        \* the HashSet threaded through preprocess_markdown
    stack,          \* the frames of the recursive preprocess_markdown calls
    call,           \* the call being entered: <<>> or <<file_path>>
    err,            \* the Err value travelling up, or NoErr
    full_markdown,  \* run_build's local: the resolver's result
    reads,          \* the paths handed to fs::read_to_string in this build
    steps,          \* the later steps this build has performed
    html_file,      \* build/<name>.html on disk
    pdf_file,       \* build/<name>.pdf on disk
    entries,        \* build_toc_hierarchy: the flat input
    pos,            \* build_toc_hierarchy: index of the next entry
    tocStack,       \* build_toc_hierarchy: stack
    result,         \* build_toc_hierarchy: result
    tocPc,          \* build_toc_hierarchy / generate_toc_html position
    html            \* generate_toc_html: the entries emitted

buildVars == <<phase, visited, stack, call, err, full_markdown, reads, steps,
               html_file, pdf_file>>
runVars == <<fs, source, watch, syntax_theme, pc, rx, changes>>
tocVars == <<entries, pos, tocStack, result, tocPc, html>>
vars == <<runVars, buildVars, tocVars>>

(***************************************************************************)
(* Bounds                                                                  *)
(***************************************************************************)
\* Longest path, in segments, the file system accepts (PATH_MAX).
MaxPathSegs == 7
\* File changes made while watching.
MaxChanges == 2
\* Headings in a flat sequence; the heading levels are h1..h6.
MaxHeadings == 4
MaxLevel == 6

(***************************************************************************)
(* std::path and path_clean                                                *)
(***************************************************************************)
Front(s) == SubSeq(s, 1, Len(s) - 1)
Last(s) == s[Len(s)]

IsAbsolute(p) == Len(p) > 0 /\ p[1] = "/"

RECURSIVE DropCurDir(_)
DropCurDir(p) ==
    IF p = <<>> THEN <<>>
    ELSE IF Head(p) = "." THEN DropCurDir(Tail(p))
    ELSE <<Head(p)>> \o DropCurDir(Tail(p))

\* Path::components: a "." is kept only as the first segment.
Components(p) == IF p = <<>> THEN <<>> ELSE <<Head(p)>> \o DropCurDir(Tail(p))

\* Path::starts_with compares whole components; ".." is a component like any other.
StartsWith(p, base) ==
    LET cp == Components(p)
        cb == Components(base)
    IN  Len(cb) <= Len(cp) /\ SubSeq(cp, 1, Len(cb)) = cb

RECURSIVE TrimRight(_)
TrimRight(p) == IF Len(p) > 1 /\ Last(p) = "." THEN TrimRight(Front(p)) ELSE p

\* Path::new(file_path).parent().unwrap_or_else(|| Path::new(""))
Parent(p) ==
    LET q == TrimRight(p)
    IN  IF q = <<>> \/ q = <<"/">> THEN <<>> ELSE TrimRight(Front(q))

\* Path::join: an absolute argument replaces the base.
Join(base, p) == IF IsAbsolute(p) THEN p ELSE base \o p

RECURSIVE CleanInto(_, _)
CleanInto(out, p) ==
    IF p = <<>> THEN out
    ELSE LET c == Head(p)
         IN  IF c = "." THEN CleanInto(out, Tail(p))
             ELSE IF c = ".."
                  THEN IF out = <<>> \/ Last(out) = ".."
                       THEN CleanInto(Append(out, c), Tail(p))
                       ELSE IF Last(out) = "/"
                            THEN CleanInto(out, Tail(p))
                            ELSE CleanInto(Front(out), Tail(p))
                  ELSE CleanInto(Append(out, c), Tail(p))

\* path_clean::clean: lexical, "." dropped, "x/.." collapsed, leading ".." kept.
Clean(p) == LET out == CleanInto(<<>>, p) IN IF out = <<>> THEN <<".">> ELSE out

(***************************************************************************)
(* The project on disk                                                     *)
(***************************************************************************)
\* std::env::current_dir(): the project root.
ProjectRoot == <<"/", "w", "p">>

MainMd == ProjectRoot \o <<"main.md">>
BMd == ProjectRoot \o <<"b.md">>
CMd == ProjectRoot \o <<"c.md">>
DMd == ProjectRoot \o <<"d.md">>
EMd == ProjectRoot \o <<"sub", "e.md">>
SecretMd == <<"/", "w", "secret.md">>

FilePaths == {MainMd, BMd, CMd, DMd, EMd, SecretMd}

\* The directories: every proper prefix of a file's path.
Dirs == UNION {{SubSeq(f, 1, n) : n \in 1..(Len(f) - 1)} : f \in FilePaths}

\* A path with no file behind it.
NoFile == <<[kind |-> "no file", id |-> "", path |-> <<>>]>>

Text(id) == [kind |-> "text", id |-> id, path |-> <<>>]
Fence == [kind |-> "fence", id |-> "fence", path |-> <<>>]
NewPage == [kind |-> "newpage", id |-> "!newpage", path |-> <<>>]
Toc == [kind |-> "toc", id |-> "!toc", path |-> <<>>]
Include(p) == [kind |-> "include", id |-> "!include", path |-> p]

\* What the resolver writes that is no line of a file.
PageBreakDiv == [kind |-> "out", id |-> "<div class=page-break>", path |-> <<>>]
TocPlaceholder == [kind |-> "out", id |-> "<!--TOC_PLACEHOLDER-->", path |-> <<>>]
NewLine == [kind |-> "out", id |-> "", path |-> <<>>]

MainContents ==
    { <<Text("m1"), Include(<<"b.md">>), Include(<<"c.md">>), Text("m2")>>,
      <<Fence, Include(<<"b.md">>), NewPage, Toc, Fence, NewPage, Toc,
        Include(<<"b.md">>)>>,
      <<Include(<<"sub", "e.md">>), Text("m2")>>,
      <<Text("m1"), Include(<<"..", "secret.md">>)>>,
      <<Include(<<".", "main.md">>)>>,
      <<Include(<<"main.md">>)>>,
      <<Include(<<"missing.md">>), Text("m2")>>,
      <<Include(SecretMd)>>,
      NoFile }
BContents ==
    { <<Text("b1")>>,
      <<Text("b1"), Include(<<"d.md">>)>>,
      <<Include(<<"main.md">>)>>,
      <<Fence, Text("b1")>> }
CContents ==
    { <<Text("c1")>>,
      <<Include(<<"d.md">>), Text("c1")>>,
      NoFile }
DContents ==
    { <<Text("d1")>>,
      <<NewPage, Text("d1")>> }
EContents ==
    { <<Text("e1")>>,
      <<Include(<<"..", "main.md">>)>>,
      <<Include(<<"..", "..", "secret.md">>)>>,
      <<Include(<<"..", "b.md">>), Text("e1")>> }

Contents(f) ==
    CASE f = MainMd -> MainContents
      [] f = BMd -> BContents
      [] f = CMd -> CContents
      [] f = DMd -> DContents
      [] f = EMd -> EContents
      [] OTHER -> {<<Text("secret")>>}

Projects ==
    { (MainMd :> m) @@ (BMd :> b) @@ (CMd :> c) @@ (DMd :> d) @@ (EMd :> e)
        @@ (SecretMd :> <<Text("secret")>>) :
      m \in MainContents, b \in BContents, c \in CContents, d \in DContents,
      e \in EContents }

NoPath == <<>>

\* The operating system's path walk from a directory: every prefix must be a
\* directory, ".." steps to the parent.
RECURSIVE Walk(_, _)
Walk(cur, p) ==
    IF p = <<>> THEN cur
    ELSE IF cur \notin Dirs THEN NoPath
    ELSE LET c == Head(p)
         IN  IF c = "." THEN Walk(cur, Tail(p))
             ELSE IF c = ".."
                  THEN Walk(IF Len(cur) = 1 THEN cur ELSE Front(cur), Tail(p))
                  ELSE Walk(Append(cur, c), Tail(p))

\* The file a path string names, relative paths starting at the working directory.
Resolve(p) ==
    IF IsAbsolute(p) THEN Walk(<<"/">>, Tail(p)) ELSE Walk(ProjectRoot, p)

\* Path::exists / fs::read_to_string succeeding.
Exists(disk, p) ==
    /\ p # <<>>
    /\ Len(p) <= MaxPathSegs
    /\ Resolve(p) \in FilePaths
    /\ disk[Resolve(p)] # NoFile

ReadToString(disk, p) == disk[Resolve(p)]

(***************************************************************************)
(* preprocess_markdown                                                     *)
(***************************************************************************)
NoErr == [kind |-> "none", path |-> <<>>]
\* AppError::BuildError("Circular dependency detected: '{file_path}'")
CircularDependency(p) == [kind |-> "CircularDependency", path |-> p]
\* The read's own error passed up: the map_err left out.
ReadError(p) == [kind |-> "IoError", path |-> p]

\* AppError::SourceNotFound(file_path)
SourceNotFound(p) == [kind |-> "SourceNotFound", path |-> p]
\* AppError::BuildError("Unauthorized file access attempt: {include_path}")
UnauthorizedAccess(p) == [kind |-> "UnauthorizedAccess", path |-> p]
\* The other failures of a build.
BuildError(what) == [kind |-> "BuildError", path |-> <<what>>]
IoError(what) == [kind |-> "IoError", path |-> <<what>>]

ResolverErrors == {"CircularDependency", "SourceNotFound", "UnauthorizedAccess"}

Frame(file_path, content) ==
    [file_path |-> file_path, content |-> content, idx |-> 1,
     in_code_block |-> FALSE, full_content |-> <<>>]

Top == stack[Len(stack)]

\* The toggle left out: the flag never changes.
ToggleNever(in_code_block, line) == in_code_block

\* if line.trim().starts_with(fence) { in_code_block = !in_code_block; }
Toggle(in_code_block, line) ==
    IF line.kind = "fence" THEN ~in_code_block ELSE in_code_block

\* The include path taken as it stands, that is, from the working directory.
IncludePathFromRoot(file_path, include_path_str) == include_path_str

\* base_path.join(include_path_str)
IncludePath(file_path, include_path_str) == Join(Parent(file_path), include_path_str)

\* The path traversal check: clean, join to the root, starts_with.
SandboxOk(include_path) ==
    StartsWith(Join(ProjectRoot, Clean(include_path)), ProjectRoot)

\* The insert into visited and the read that open a call.
PreprocessEnter ==
    /\ phase = "preprocess" /\ call # <<>> /\ err = NoErr
    /\ LET file_path == call[1]
       IN  IF file_path \in visited
           THEN /\ err' = CircularDependency(file_path)
                /\ UNCHANGED <<visited, stack, reads>>
           ELSE /\ visited' = visited \cup {file_path}
                /\ reads' = Append(reads, file_path)
                /\ IF Exists(fs, file_path)
                   THEN /\ stack' = Append(stack, Frame(file_path, ReadToString(fs, file_path)))
                        /\ err' = NoErr
                   ELSE /\ err' = SourceNotFound(file_path)
                        /\ stack' = stack
    /\ call' = <<>>
    /\ UNCHANGED <<phase, full_markdown, steps, html_file, pdf_file, runVars, tocVars>>

\* The marker written after the directive line instead of in its place.
ClassifyKeepsDirective(file_path, line) ==
    IF line.kind = "include"
    THEN LET include_path == IncludePath(file_path, line.path)
         IN  IF SandboxOk(include_path)
             THEN <<(<<>>), <<include_path>>, NoErr>>
             ELSE <<(<<>>), (<<>>), UnauthorizedAccess(include_path)>>
    ELSE IF line.kind = "newpage" THEN <<(<<line, PageBreakDiv>>), (<<>>), NoErr>>
    ELSE IF line.kind = "toc" THEN <<(<<line, TocPlaceholder>>), (<<>>), NoErr>>
    ELSE <<(<<line>>), (<<>>), NoErr>>

\* What one line outside a fence does: <<lines pushed, call made, error returned>>.
Classify(file_path, line) ==
    IF line.kind = "include"
    THEN LET include_path == IncludePath(file_path, line.path)
         IN  IF SandboxOk(include_path)
             THEN <<(<<>>), <<include_path>>, NoErr>>
             ELSE <<(<<>>), (<<>>), UnauthorizedAccess(include_path)>>
    ELSE IF line.kind = "newpage" THEN <<(<<PageBreakDiv>>), (<<>>), NoErr>>
    ELSE IF line.kind = "toc" THEN <<(<<TocPlaceholder>>), (<<>>), NoErr>>
    ELSE <<(<<line>>), (<<>>), NoErr>>

\* One iteration of the loop over content.lines().
PreprocessLine ==
    /\ phase = "preprocess" /\ call = <<>> /\ err = NoErr /\ stack # <<>>
    /\ Top.idx <= Len(Top.content)
    /\ LET line == Top.content[Top.idx]
           flag == Toggle(Top.in_code_block, line)
           does == IF flag THEN <<(<<line>>), (<<>>), NoErr>>
                   ELSE Classify(Top.file_path, line)
       IN  /\ stack' = [stack EXCEPT ![Len(stack)] =
                           [@ EXCEPT !.idx = @ + 1,
                                     !.in_code_block = flag,
                                     !.full_content = @ \o does[1]]]
           /\ call' = does[2]
           /\ err' = does[3]
    /\ UNCHANGED <<phase, visited, full_markdown, reads, steps, html_file, pdf_file,
                   runVars, tocVars>>

\* The path taken out of visited again when its call returns.
PreprocessReturnForgets ==
    /\ phase = "preprocess" /\ call = <<>> /\ err = NoErr /\ Len(stack) > 1
    /\ Top.idx > Len(Top.content)
    /\ stack' = [Front(stack) EXCEPT ![Len(stack) - 1] =
                    [@ EXCEPT !.full_content = @ \o Top.full_content \o <<NewLine>>]]
    /\ visited' = visited \ {Top.file_path}
    /\ UNCHANGED <<phase, call, err, full_markdown, reads, steps, html_file,
                   pdf_file, runVars, tocVars>>

\* The flag of the included file's scan carried back into the including file.
PreprocessReturnLeaksFlag ==
    /\ phase = "preprocess" /\ call = <<>> /\ err = NoErr /\ Len(stack) > 1
    /\ Top.idx > Len(Top.content)
    /\ stack' = [Front(stack) EXCEPT ![Len(stack) - 1] =
                    [@ EXCEPT !.full_content = @ \o Top.full_content \o <<NewLine>>,
                              !.in_code_block = Top.in_code_block]]
    /\ UNCHANGED <<phase, visited, call, err, full_markdown, reads, steps, html_file,
                   pdf_file, runVars, tocVars>>

\* Ok(full_content) of an included file: spliced, then a newline.
PreprocessReturn ==
    /\ phase = "preprocess" /\ call = <<>> /\ err = NoErr /\ Len(stack) > 1
    /\ Top.idx > Len(Top.content)
    /\ stack' = [Front(stack) EXCEPT ![Len(stack) - 1] =
                    [@ EXCEPT !.full_content = @ \o Top.full_content \o <<NewLine>>]]
    /\ UNCHANGED <<phase, visited, call, err, full_markdown, reads, steps, html_file,
                   pdf_file, runVars, tocVars>>

\* An Err leaves a call: the ? on the recursive call, or the return that made it.
PreprocessPropagate ==
    /\ phase = "preprocess" /\ err # NoErr /\ stack # <<>>
    /\ stack' = Front(stack)
    /\ UNCHANGED <<phase, visited, call, err, full_markdown, reads, steps, html_file,
                   pdf_file, runVars, tocVars>>

(***************************************************************************)
(* The outline: TocEntry, build_toc_hierarchy's rules, generate_toc_html   *)
(***************************************************************************)
TocEntry(level, title) == [level |-> level, title |-> title, children |-> <<>>]

\* The comparison taken as <=: a heading of the same level counts as a parent.
IsParentOrEqual(last, entry) == last.level <= entry.level

\* if last.level < entry.level { break; }
IsParent(last, entry) == last.level < entry.level

\* The child put first instead of last.
PushChildFirst(parent, child) == [parent EXCEPT !.children = <<child>> \o @]

\* grandparent.children.push(parent)
PushChild(parent, child) == [parent EXCEPT !.children = Append(@, child)]

\* The pieces of markup generate_toc_html writes.
TocOpen == [class |-> "toc", h |-> 0, title |-> 0]
TocTitle == [class |-> "toc-title", h |-> 0, title |-> 0]
TocContentOpen == [class |-> "toc-content", h |-> 0, title |-> 0]
TocClose == [class |-> "/toc", h |-> 0, title |-> 0]
\* <div class="toc-entry toc-entry-h{level}"><span class="toc-entry-title">{title}</span>..
TocEntryDiv(level, title) == [class |-> "toc-entry", h |-> level, title |-> title]

\* generate_toc_entry_html: the entry, then its children in order.
RECURSIVE GenerateTocEntryHtml(_)
RECURSIVE GenerateTocEntriesHtml(_)
GenerateTocEntryHtml(entry) ==
    <<TocEntryDiv(entry.level, entry.title)>> \o GenerateTocEntriesHtml(entry.children)
GenerateTocEntriesHtml(list) ==
    IF list = <<>> THEN <<>>
    ELSE GenerateTocEntryHtml(Head(list)) \o GenerateTocEntriesHtml(Tail(list))

\* The test for an empty forest left out: the wrapper is always written.
GenerateTocHtmlWrapped(list) ==
    <<TocOpen, TocTitle, TocContentOpen>> \o GenerateTocEntriesHtml(list) \o <<TocClose>>

GenerateTocHtml(list) ==
    IF list = <<>> THEN <<>>
    ELSE <<TocOpen, TocTitle, TocContentOpen>> \o GenerateTocEntriesHtml(list)
            \o <<TocClose>>


\* The inner while loop of build_toc_hierarchy for one entry:
\* <<stack, result>> once the top of the stack is a parent of the entry.
RECURSIVE PopUntilParent(_, _, _)
PopUntilParent(stk, res, entry) ==
    IF stk = <<>> THEN <<stk, res>>
    ELSE IF IsParent(Last(stk), entry) THEN <<stk, res>>
    ELSE LET parent == Last(stk)
             rest == Front(stk)
         IN  IF rest # <<>>
             THEN PopUntilParent([rest EXCEPT ![Len(rest)] = PushChild(@, parent)],
                                 res, entry)
             ELSE PopUntilParent(rest, Append(res, parent), entry)

\* The loop that pushes the remaining items from the stack to the result.
RECURSIVE DrainStack(_, _)
DrainStack(stk, res) ==
    IF stk = <<>> THEN res
    ELSE LET entry == Last(stk)
             rest == Front(stk)
         IN  IF rest # <<>>
             THEN DrainStack([rest EXCEPT ![Len(rest)] = PushChild(@, entry)], res)
             ELSE DrainStack(rest, Append(res, entry))

RECURSIVE BuildTocLoop(_, _, _)
BuildTocLoop(es, stk, res) ==
    IF es = <<>> THEN DrainStack(stk, res)
    ELSE LET popped == PopUntilParent(stk, res, Head(es))
         IN  BuildTocLoop(Tail(es), Append(popped[1], Head(es)), popped[2])

\* build_toc_hierarchy as build_html uses it: in one go.
BuildTocHierarchy(es) == BuildTocLoop(es, <<>>, <<>>)

(***************************************************************************)
(* build_html: the body of the document                                    *)
(***************************************************************************)
\* A heading line of a Markdown file: "#" level times, then the title.  The
\* path field holds the tag the renderer gives it.
HeadingTags == <<"h1", "h2", "h3", "h4", "h5", "h6">>
Heading(level, title) == [kind |-> "heading", id |-> title, path |-> <<HeadingTags[level]>>]

\* The elements of body_html.
Element(tag, text) == [tag |-> tag, text |-> text, toc |-> <<>>]
PlaceholderComment == Element("comment", TocPlaceholder.id)
TocBlock(toc_html) == [tag |-> "toc", text |-> "", toc |-> toc_html]

\* html::push_html over Parser::new_ext(markdown_content): a fence opens or
\* closes a code block wherever it stands in the merged document, and a code
\* block left open runs to the end; the lines of a code block are escaped text.
RECURSIVE PushHtml(_, _)
PushHtml(markdown_content, in_code) ==
    IF markdown_content = <<>> THEN <<>>
    ELSE LET line == Head(markdown_content)
             now == IF line.kind = "fence" THEN ~in_code ELSE in_code
             here == IF line.kind = "fence" THEN <<>>
                     ELSE IF in_code THEN <<Element("code", line.id)>>
                     ELSE IF line.kind = "heading" THEN <<Element(line.path[1], line.id)>>
                     ELSE IF line = TocPlaceholder THEN <<PlaceholderComment>>
                     ELSE IF line = PageBreakDiv THEN <<Element("div", line.id)>>
                     ELSE IF line = NewLine THEN <<>>
                     ELSE <<Element("p", line.id)>>
         IN  here \o PushHtml(Tail(markdown_content), now)

\* let level = match tag_name { "h1" => 1, .. "h6" => 6, _ => continue }
HeadingLevel(tag_name) ==
    CASE tag_name = "h1" -> 1 [] tag_name = "h2" -> 2 [] tag_name = "h3" -> 3
      [] tag_name = "h4" -> 4 [] tag_name = "h5" -> 5 [] tag_name = "h6" -> 6
      [] OTHER -> 0

\* The selector taken as "h1" alone: the deeper headings are not listed.
TocEntriesOfH1(body_html) ==
    LET headings == SelectSeq(body_html,
                              LAMBDA e : HeadingLevel(e.tag) = 1 /\ e.text # "")
    IN  [i \in 1..Len(headings) |-> TocEntry(1, headings[i].text)]

\* The loop of generate_toc_from_html: the headings in document order, those
\* with an empty title left out.  No heading of a Markdown line has a section
\* element above it, so every title is kept as it is.
TocEntries(body_html) ==
    LET headings == SelectSeq(body_html,
                              LAMBDA e : HeadingLevel(e.tag) > 0 /\ e.text # "")
    IN  [i \in 1..Len(headings) |->
            TocEntry(HeadingLevel(headings[i].tag), headings[i].text)]

GenerateTocFromHtml(body_html) ==
    GenerateTocHtml(BuildTocHierarchy(TocEntries(body_html)))

\* body_html.replace("<!--TOC_PLACEHOLDER-->", &toc_html)
RECURSIVE ReplacePlaceholder(_, _)
ReplacePlaceholder(body_html, toc_html) ==
    IF body_html = <<>> THEN <<>>
    ELSE (IF Head(body_html) = PlaceholderComment
          THEN IF toc_html = <<>> THEN <<>> ELSE <<TocBlock(toc_html)>>
          ELSE <<Head(body_html)>>)
         \o ReplacePlaceholder(Tail(body_html), toc_html)

\* The body between <main> and </main> of the document build_html writes.
BuildBody(markdown_content) ==
    LET body_html == PushHtml(markdown_content, FALSE)
    IN  IF \E i \in 1..Len(body_html) : body_html[i] = PlaceholderComment
        THEN ReplacePlaceholder(body_html, GenerateTocFromHtml(body_html))
        ELSE body_html

(***************************************************************************)
(* run_build                                                               *)
(***************************************************************************)
\* The themes ThemeSet::load_defaults knows.
KnownThemes == {"InspiredGitHub"}

\* The set kept from one build to the next instead of HashSet::new().
BuildStartKeepsVisited ==
    /\ phase = "called"
    /\ phase' = "preprocess"
    /\ stack' = <<>>
    /\ call' = <<source>>
    /\ err' = NoErr
    /\ full_markdown' = <<>>
    /\ reads' = <<>>
    /\ steps' = {}
    /\ UNCHANGED <<visited, html_file, pdf_file, runVars, tocVars>>

\* let full_markdown = preprocess_markdown(&project_root, &config.source, &mut HashSet::new())
BuildStart ==
    /\ phase = "called"
    /\ phase' = "preprocess"
    /\ visited' = {}
    /\ stack' = <<>>
    /\ call' = <<source>>
    /\ err' = NoErr
    /\ full_markdown' = <<>>
    /\ reads' = <<>>
    /\ steps' = {}
    /\ UNCHANGED <<html_file, pdf_file, runVars, tocVars>>

\* The top-level call returned Ok.
BuildPreprocessOk ==
    /\ phase = "preprocess" /\ call = <<>> /\ err = NoErr /\ Len(stack) = 1
    /\ Top.idx > Len(Top.content)
    /\ full_markdown' = Top.full_content
    /\ stack' = <<>>
    /\ phase' = "copy_assets"
    /\ UNCHANGED <<visited, call, err, reads, steps, html_file, pdf_file, runVars, tocVars>>

\* The ? left out: the error is dropped and the build goes on with no document.
BuildPreprocessErrIgnored ==
    /\ phase = "preprocess" /\ err # NoErr /\ stack = <<>>
    /\ phase' = "copy_assets"
    /\ err' = NoErr
    /\ UNCHANGED <<visited, stack, call, full_markdown, reads, steps, html_file,
                   pdf_file, runVars, tocVars>>

\* The top-level call returned Err: the ? returns it from run_build.
BuildPreprocessErr ==
    /\ phase = "preprocess" /\ err # NoErr /\ stack = <<>>
    /\ phase' = "err"
    /\ UNCHANGED <<visited, stack, call, err, full_markdown, reads, steps, html_file,
                   pdf_file, runVars, tocVars>>

\* copy_assets_optimized(..)?
CopyAssets ==
    /\ phase = "copy_assets"
    /\ steps' = steps \cup {"copy_assets"}
    /\ \E ok \in BOOLEAN :
          IF ok THEN phase' = "build_html" /\ err' = err
          ELSE phase' = "err" /\ err' = IoError("assets")
    /\ UNCHANGED <<visited, stack, call, full_markdown, reads, html_file, pdf_file,
                   runVars, tocVars>>

\* build_html(config, &full_markdown)?
BuildHtml ==
    /\ phase = "build_html"
    /\ steps' = steps \cup {"build_html"}
    /\ IF syntax_theme \in KnownThemes
       THEN /\ html_file' = [markdown |-> full_markdown,
                            body |-> BuildBody(full_markdown)]
            /\ phase' = "build_pdf"
            /\ err' = err
       ELSE /\ html_file' = html_file
            /\ phase' = "err"
            /\ err' = BuildError("Syntax theme not found")
    /\ UNCHANGED <<visited, stack, call, full_markdown, reads, pdf_file, runVars, tocVars>>

\* build_pdf_from_html(..).await?
BuildPdf ==
    /\ phase = "build_pdf"
    /\ steps' = steps \cup {"build_pdf"}
    /\ \E ok \in BOOLEAN :
          IF ok
          THEN pdf_file' = [html |-> html_file] /\ phase' = "ok" /\ err' = err
          ELSE pdf_file' = pdf_file /\ phase' = "err"
               /\ err' = BuildError("No compatible browser")
    /\ UNCHANGED <<visited, stack, call, full_markdown, reads, html_file, runVars, tocVars>>

(***************************************************************************)
(* run and run_watch_mode                                                  *)
(***************************************************************************)
\* Commands::Build: the check that the source exists, then the first build.
RunStart ==
    /\ pc = "start"
    /\ IF Exists(fs, source)
       THEN pc' = "first_build" /\ phase' = "called" /\ err' = err
       ELSE pc' = "exit_err" /\ phase' = phase /\ err' = SourceNotFound(source)
    /\ UNCHANGED <<fs, source, watch, syntax_theme, rx, changes, visited, stack, call,
                   full_markdown, reads, steps, html_file, pdf_file, tocVars>>

\* builder::run_build(&config).await? and if *watch
RunFirstBuildDone ==
    /\ pc = "first_build" /\ phase \in {"ok", "err"}
    /\ IF phase = "err" THEN pc' = "exit_err" /\ phase' = phase
       ELSE IF watch THEN pc' = "watching" /\ phase' = "idle"
       ELSE pc' = "exit_ok" /\ phase' = phase
    /\ UNCHANGED <<fs, source, watch, syntax_theme, rx, changes, visited, stack, call,
                   err, full_markdown, reads, steps, html_file, pdf_file, tocVars>>

\* build/ before any build.
NoHtml == [markdown |-> NoFile, body |-> <<>>]
NoPdf == [html |-> NoHtml]

\* The paths run_watch_mode watches: the source's directory, recursively, or
\* "." without recursion when the source has no directory part.
Watched(f) ==
    IF Parent(source) = <<>>
    THEN Front(f) = ProjectRoot
    ELSE StartsWith(f, Resolve(Parent(source)))

\* The contents an edit gives a file while the command runs.
EditContents(f) ==
    CASE f = MainMd ->
            { <<Text("m1"), Include(<<"b.md">>), Include(<<"c.md">>), Text("m2")>>,
              <<Include(<<"missing.md">>), Text("m2")>>,
              NoFile }
      [] f = BMd -> { <<Text("b1")>>, <<Include(<<"main.md">>)>>, NoFile }
      [] f = EMd -> { <<Text("e1")>>, <<Text("e2")>> }
      [] OTHER -> {}

EventKind(old, new) ==
    IF old = NoFile THEN "create" ELSE IF new = NoFile THEN "remove" ELSE "modify"

\* The environment edits, creates or removes a file; the watcher, once set up,
\* sends the event of a watched path.
FileChange ==
    /\ watch /\ pc \in {"first_build", "watching", "rebuilding"}
    /\ changes < MaxChanges
    /\ changes' = changes + 1
    /\ \E f \in FilePaths : \E c \in EditContents(f) \ {fs[f]} :
          /\ fs' = [fs EXCEPT ![f] = c]
          /\ rx' = IF pc # "first_build" /\ Watched(f)
                   THEN Append(rx, EventKind(fs[f], c))
                   ELSE rx
    /\ UNCHANGED <<source, watch, syntax_theme, pc, buildVars, tocVars>>

\* The watcher sends an event that is no change (an access), or an error.
WatcherNoise ==
    /\ pc \in {"watching", "rebuilding"}
    /\ changes < MaxChanges
    /\ changes' = changes + 1
    /\ \E e \in {"access", "error"} : rx' = Append(rx, e)
    /\ UNCHANGED <<fs, source, watch, syntax_theme, pc, buildVars, tocVars>>

\* The build started for an event without waiting for the one that is running.
WatchRecvWhileBuilding ==
    /\ pc \in {"watching", "rebuilding"} /\ rx # <<>>
    /\ rx' = Tail(rx)
    /\ IF Head(rx) \in {"modify", "create", "remove"}
       THEN pc' = "rebuilding" /\ phase' = "called"
       ELSE pc' = pc /\ phase' = phase
    /\ UNCHANGED <<fs, source, watch, syntax_theme, changes, visited, stack, call, err,
                   full_markdown, reads, steps, html_file, pdf_file, tocVars>>

\* for res in rx: a modify, create or remove event starts a rebuild.
WatchRecv ==
    /\ pc = "watching" /\ rx # <<>>
    /\ rx' = Tail(rx)
    /\ IF Head(rx) \in {"modify", "create", "remove"}
       THEN pc' = "rebuilding" /\ phase' = "called"
       ELSE pc' = pc /\ phase' = phase
    /\ UNCHANGED <<fs, source, watch, syntax_theme, changes, visited, stack, call, err,
                   full_markdown, reads, steps, html_file, pdf_file, tocVars>>

\* The rebuild called with ? as the first build is: its error ends the loop.
WatchBuildDoneEndsOnErr ==
    /\ pc = "rebuilding" /\ phase \in {"ok", "err"}
    /\ IF phase = "err" THEN pc' = "exit_err" /\ phase' = phase
       ELSE pc' = "watching" /\ phase' = "idle"
    /\ UNCHANGED <<fs, source, watch, syntax_theme, rx, changes, visited, stack, call,
                   err, full_markdown, reads, steps, html_file, pdf_file, tocVars>>

\* if let Err(e) = builder::run_build(&config).await { eprintln!(..) }
WatchBuildDone ==
    /\ pc = "rebuilding" /\ phase \in {"ok", "err"}
    /\ pc' = "watching"
    /\ phase' = "idle"
    /\ UNCHANGED <<fs, source, watch, syntax_theme, rx, changes, visited, stack, call,
                   err, full_markdown, reads, steps, html_file, pdf_file, tocVars>>

TocIdle ==
    /\ entries = <<>> /\ pos = 1 /\ tocStack = <<>> /\ result = <<>>
    /\ tocPc = "idle" /\ html = <<>>

BuildIdle ==
    /\ phase = "idle" /\ visited = {} /\ stack = <<>> /\ call = <<>> /\ err = NoErr
    /\ full_markdown = <<>> /\ reads = <<>> /\ steps = {}
    /\ html_file = NoHtml /\ pdf_file = NoPdf

Sources == {<<"main.md">>, MainMd}
Themes == {"InspiredGitHub", "NoSuchTheme"}

Init ==
    /\ fs \in Projects
    /\ source \in Sources
    /\ syntax_theme \in Themes
    /\ watch = FALSE
    /\ pc = "start" /\ rx = <<>> /\ changes = 0
    /\ BuildIdle
    /\ TocIdle

Next ==
    \/ RunStart
    \/ BuildStart
    \/ PreprocessEnter
    \/ PreprocessLine
    \/ PreprocessReturn
    \/ PreprocessPropagate
    \/ BuildPreprocessOk
    \/ BuildPreprocessErr
    \/ CopyAssets
    \/ BuildHtml
    \/ BuildPdf
    \/ RunFirstBuildDone

Spec == Init /\ [][Next]_vars

\* The projects the watched command starts on.
WatchProjects ==
    { p \in Projects :
        /\ p[MainMd] \in EditContents(MainMd)
        /\ p[BMd] \in EditContents(BMd)
        /\ p[CMd] = <<Text("c1")>>
        /\ p[DMd] = <<Text("d1")>>
        /\ p[EMd] = <<Text("e1")>> }

InitWatch ==
    /\ fs \in WatchProjects
    /\ source \in Sources
    /\ syntax_theme \in KnownThemes
    /\ watch = TRUE
    /\ pc = "start" /\ rx = <<>> /\ changes = 0
    /\ BuildIdle
    /\ TocIdle

NextWatch ==
    \/ Next
    \/ FileChange
    \/ WatcherNoise
    \/ WatchRecv
    \/ WatchBuildDone

SpecWatch == InitWatch /\ [][NextWatch]_vars

\* The steps of the command itself, as against those of its surroundings (the
\* edits of files, the watcher's other events).
ProgramStep == Next \/ WatchRecv \/ WatchBuildDone

\* The watched command on the source as init_project names it in config.yaml.
InitWatchLive == InitWatch /\ source = <<"main.md">>

\* The command keeps running: a step of its own that can be taken is taken.
SpecWatchLive == InitWatchLive /\ [][NextWatch]_vars /\ WF_vars(ProgramStep)

(***************************************************************************)
(* A build of a document with headings                                     *)
(***************************************************************************)
ComposeMain ==
    { <<Heading(1, "Title"), Toc, Include(<<"b.md">>)>>,
      <<Heading(1, "Title"), Include(<<"b.md">>), Toc, Heading(2, "Last")>>,
      <<Toc, Text("m1")>>,
      <<Fence, Heading(1, "Code"), Toc, Fence, Heading(3, "Deep"), Toc>>,
      <<Heading(1, "Title"), Toc, Heading(2, "")>>,
      <<Include(<<"missing.md">>), Toc>>,
      <<Text("m1"), Include(<<"b.md">>)>> }
ComposeB ==
    { <<Heading(2, "Section A")>>,
      <<Heading(2, "Section A"), Heading(3, "Detail"), Heading(1, "Appendix")>>,
      <<Text("b1")>>,
      <<Fence, Text("b1")>> }

ComposeProjects ==
    { (MainMd :> m) @@ (BMd :> b) @@ (CMd :> <<Text("c1")>>) @@ (DMd :> <<Text("d1")>>)
        @@ (EMd :> <<Text("e1")>>) @@ (SecretMd :> <<Text("secret")>>) :
      m \in ComposeMain, b \in ComposeB }

InitCompose ==
    /\ fs \in ComposeProjects
    /\ source \in Sources
    /\ syntax_theme \in Themes
    /\ watch = FALSE
    /\ pc = "start" /\ rx = <<>> /\ changes = 0
    /\ BuildIdle
    /\ TocIdle

SpecCompose == InitCompose /\ [][Next]_vars

(***************************************************************************)
(* build_toc_hierarchy and generate_toc_html                               *)
(***************************************************************************)
\* The flat sequences of headings: levels h1..h6, the title of a heading
\* being its place in the document.
FlatHeadings ==
    UNION { { [i \in 1..n |-> TocEntry(lv[i], i)] : lv \in [1..n -> 1..MaxLevel] } :
            n \in 0..MaxHeadings }

\* One turn of the inner while loop: the top of the stack is no parent of the
\* entry, so it is popped and attached.
TocPop ==
    /\ tocPc = "loop" /\ pos <= Len(entries) /\ tocStack # <<>>
    /\ ~IsParent(Last(tocStack), entries[pos])
    /\ LET parent == Last(tocStack)
           rest == Front(tocStack)
       IN  IF rest # <<>>
           THEN /\ tocStack' = [rest EXCEPT ![Len(rest)] = PushChild(@, parent)]
                /\ result' = result
           ELSE /\ tocStack' = rest
                /\ result' = Append(result, parent)
    /\ UNCHANGED <<entries, pos, tocPc, html, runVars, buildVars>>

\* stack.push(entry)
TocPush ==
    /\ tocPc = "loop" /\ pos <= Len(entries)
    /\ IF tocStack = <<>> THEN TRUE ELSE IsParent(Last(tocStack), entries[pos])
    /\ tocStack' = Append(tocStack, entries[pos])
    /\ pos' = pos + 1
    /\ UNCHANGED <<entries, result, tocPc, html, runVars, buildVars>>

\* Every drained entry put among the roots.
TocDrainToResult ==
    /\ tocPc = "loop" /\ pos > Len(entries) /\ tocStack # <<>>
    /\ tocStack' = Front(tocStack)
    /\ result' = Append(result, Last(tocStack))
    /\ UNCHANGED <<entries, pos, tocPc, html, runVars, buildVars>>

\* while let Some(entry) = stack.pop(): the remaining items leave the stack.
TocDrain ==
    /\ tocPc = "loop" /\ pos > Len(entries) /\ tocStack # <<>>
    /\ LET entry == Last(tocStack)
           rest == Front(tocStack)
       IN  IF rest # <<>>
           THEN /\ tocStack' = [rest EXCEPT ![Len(rest)] = PushChild(@, entry)]
                /\ result' = result
           ELSE /\ tocStack' = rest
                /\ result' = Append(result, entry)
    /\ UNCHANGED <<entries, pos, tocPc, html, runVars, buildVars>>

\* build_toc_hierarchy returns result.
TocReturn ==
    /\ tocPc = "loop" /\ pos > Len(entries) /\ tocStack = <<>>
    /\ tocPc' = "built"
    /\ UNCHANGED <<entries, pos, tocStack, result, html, runVars, buildVars>>

\* generate_toc_html(&hierarchical_toc)
TocRender ==
    /\ tocPc = "built"
    /\ html' = GenerateTocHtml(result)
    /\ tocPc' = "done"
    /\ UNCHANGED <<entries, pos, tocStack, result, runVars, buildVars>>

\* The outline is built for a flat heading sequence, no build running.
InitToc ==
    /\ entries \in FlatHeadings
    /\ pos = 1 /\ tocStack = <<>> /\ result = <<>> /\ tocPc = "loop" /\ html = <<>>
    /\ fs \in {p \in WatchProjects : p[MainMd] = <<Include(<<"missing.md">>), Text("m2")>>
                                      /\ p[BMd] = <<Text("b1")>>}
    /\ source = MainMd
    /\ syntax_theme \in KnownThemes
    /\ watch = FALSE
    /\ pc = "exit_ok" /\ rx = <<>> /\ changes = 0
    /\ BuildIdle

NextToc ==
    \/ TocPop
    \/ TocPush
    \/ TocDrain
    \/ TocReturn
    \/ TocRender

SpecToc == InitToc /\ [][NextToc]_vars

(***************************************************************************)
(* The include resolver's claims                                           *)
(***************************************************************************)
\* The path, made absolute at the project root and normalized lexically, has
\* the project root as a prefix.
InsideRoot(p) == StartsWith(Clean(Join(ProjectRoot, p)), ProjectRoot)

\* C1: an include path that, resolved against the including file's directory
\* and normalized, leaves the project root is refused: no recursive call is
\* made for it and the file is never handed to read_to_string, whether the
\* including file's path is absolute or relative.
C1_SandboxEnforced ==
    /\ \A i \in 1..Len(reads) : InsideRoot(reads[i])
    /\ call # <<>> => InsideRoot(call[1])

\* The include graph of a project, on the files themselves: the targets of the
\* include lines of a file that stand outside its fences.
RECURSIVE IncludesOutsideFences(_, _)
IncludesOutsideFences(content, inside) ==
    IF content = <<>> THEN <<>>
    ELSE LET line == Head(content)
             now == IF line.kind = "fence" THEN ~inside ELSE inside
         IN  (IF line.kind = "include" /\ ~now THEN <<line.path>> ELSE <<>>)
                 \o IncludesOutsideFences(Tail(content), now)

Range(seq) == {seq[i] : i \in 1..Len(seq)}

IsFile(disk, f) == f \in FilePaths /\ disk[f] # NoFile

\* The file an include of file f names.
Target(f, include_path_str) == Clean(Join(Front(f), include_path_str))

Edges(disk, f) ==
    IF IsFile(disk, f)
    THEN {Target(f, p) : p \in Range(IncludesOutsideFences(disk[f], FALSE))}
    ELSE {}

RECURSIVE ReachableIn(_, _, _)
ReachableIn(disk, from, n) ==
    IF n = 0 THEN from
    ELSE LET more == from \cup UNION {Edges(disk, f) : f \in from}
         IN  IF more = from THEN from ELSE ReachableIn(disk, more, n - 1)

\* The files reached from f by one include or more.
Below(disk, f) == ReachableIn(disk, Edges(disk, f), Cardinality(FilePaths))

\* The files of the build: the source and what it reaches.
BuildFiles(disk) == {MainMd} \cup Below(disk, MainMd)

HasCycle(disk) == \E f \in BuildFiles(disk) : f \in Below(disk, f)

PreprocessOver == phase \notin {"idle", "called", "preprocess"}

\* C2: a build whose include graph has a cycle, however the include paths spell
\* the files of the cycle, ends with CircularDependency.
C2_CycleRejected ==
    (HasCycle(fs) /\ PreprocessOver) => err.kind = "CircularDependency"

\* Every file of the build exists and lies inside the project root.
AllIncludesOk(disk) ==
    \A f \in BuildFiles(disk) : IsFile(disk, f) /\ StartsWith(f, ProjectRoot)

\* The text lines of a document, in order.
RECURSIVE TextsOf(_)
TextsOf(doc) ==
    IF doc = <<>> THEN <<>>
    ELSE (IF Head(doc).kind = "text" THEN <<Head(doc).id>> ELSE <<>>) \o TextsOf(Tail(doc))

\* The pre-order, depth-first walk of the include graph from file f: the text
\* lines of f, each include outside a fence replaced by the walk of its target.
RECURSIVE PreOrder(_, _, _, _)
PreOrder(disk, f, content, inside) ==
    IF content = <<>> THEN <<>>
    ELSE LET line == Head(content)
             now == IF line.kind = "fence" THEN ~inside ELSE inside
             here == IF line.kind = "text" THEN <<line.id>>
                     ELSE IF line.kind = "include" /\ ~now
                          THEN LET t == Target(f, line.path)
                               IN  PreOrder(disk, t, disk[t], FALSE)
                          ELSE <<>>
         IN  here \o PreOrder(disk, f, Tail(content), now)

\* C3: on an acyclic include graph whose files are all readable and inside the
\* root, the resolver succeeds and its output carries the files' contents in
\* the pre-order, depth-first order of the graph.
C3_AcyclicPreOrder ==
    (PreprocessOver /\ ~HasCycle(fs) /\ AllIncludesOk(fs)) =>
        /\ err.kind \notin ResolverErrors
        /\ TextsOf(full_markdown) = PreOrder(fs, MainMd, fs[MainMd], FALSE)

\* A file included by two different files of an acyclic, readable build.
IsDiamond(disk) ==
    /\ ~HasCycle(disk) /\ AllIncludesOk(disk)
    /\ \E b, c, d \in BuildFiles(disk) :
          b # c /\ d \in Edges(disk, b) /\ d \in Edges(disk, c)

Count(seq, x) == Cardinality({i \in 1..Len(seq) : seq[i] = x})

\* C4: a diamond is accepted: the build succeeds and the file included from
\* two files is spliced at both include sites.
C4_DiamondAccepted ==
    (PreprocessOver /\ IsDiamond(fs)) =>
        /\ err.kind \notin ResolverErrors
        /\ Count(TextsOf(full_markdown), "d1") = 2

\* The innermost call is about to take its next line.
AtLine ==
    /\ phase = "preprocess" /\ call = <<>> /\ err = NoErr /\ stack # <<>>
    /\ Top.idx <= Len(Top.content)

FencesIn(content) == Cardinality({i \in 1..Len(content) : content[i].kind = "fence"})

Directives == {"include", "newpage", "toc"}

\* C5: the fence flag is toggled by every fence line, before the line is
\* classified; a line read with the flag set, and a fence line itself, is
\* emitted unchanged and causes no call, no read and no error; a directive line
\* read with the flag clear is never emitted as it stands: it is replaced
\* (newpage, toc) or it starts a call or fails (include).
C5_FenceShieldsDirectives ==
    [][AtLine =>
        LET line == Top.content[Top.idx]
            after == stack'[Len(stack)]
            verbatim == Append(Top.full_content, line)
        IN  /\ Top.in_code_block = (FencesIn(SubSeq(Top.content, 1, Top.idx - 1)) % 2 = 1)
            /\ after.in_code_block = (FencesIn(SubSeq(Top.content, 1, Top.idx)) % 2 = 1)
            /\ (line.kind = "fence" \/ after.in_code_block) =>
                    /\ after.full_content = verbatim
                    /\ call' = <<>> /\ err' = NoErr /\ reads' = reads
            /\ (line.kind \in Directives /\ ~after.in_code_block) =>
                    /\ after.full_content # verbatim
                    /\ line.kind = "newpage" =>
                            after.full_content = Append(Top.full_content, PageBreakDiv)
                    /\ line.kind = "toc" =>
                            after.full_content = Append(Top.full_content, TocPlaceholder)
                    /\ line.kind = "include" =>
                            /\ after.full_content = Top.full_content
                            /\ (call' # <<>>) # (err' # NoErr)
    ]_vars

\* A frame has just emitted, inside a fence, the directive line d as it stands.
EmittedInFence(frame, d) ==
    /\ frame.in_code_block /\ frame.idx > 1
    /\ frame.content[frame.idx - 1] = d
    /\ frame.full_content # <<>> /\ Last(frame.full_content) = d

\* Each of the three directives has been passed through inside a fence, and the
\* same file has had directives replaced outside it.
C5_Witness ==
    /\ stack # <<>>
    /\ EmittedInFence(Top, Toc)
    /\ \E i \in 1..Len(Top.full_content) : Top.full_content[i] = NewPage
    /\ \E i \in 1..Len(Top.full_content) : Top.full_content[i].kind = "include"

(***************************************************************************)
(* The build's claims                                                      *)
(***************************************************************************)
ResolverFailed == phase \in {"preprocess", "err"} /\ err.kind \in ResolverErrors

\* C6: once the resolver has failed, at whatever depth, the same error value
\* travels up through every enclosing call and out of run_build; the build
\* has performed and performs no later step (no asset copy, no HTML write, no
\* PDF step), and the HTML and PDF files of an earlier build stay as they are.
C6_ResolverErrorAborts ==
    [][ResolverFailed =>
        /\ steps = {} /\ steps' = {}
        /\ html_file' = html_file /\ pdf_file' = pdf_file
        /\ full_markdown' = <<>>
        /\ err' = err
        /\ phase' \notin {"copy_assets", "build_html", "build_pdf", "ok"}
    ]_vars

\* A rebuild has failed in an included file and returned to the watch loop,
\* the files of an earlier successful build being on disk.
C6_Witness ==
    /\ pc = "rebuilding" /\ phase = "err" /\ err.kind \in ResolverErrors
    /\ Len(reads) >= 2 /\ stack = <<>>
    /\ html_file # NoHtml /\ pdf_file # NoPdf

(***************************************************************************)
(* The outline's claims                                                    *)
(***************************************************************************)
TocBuilt == tocPc \in {"built", "done"}

Levels == [i \in 1..Len(entries) |-> entries[i].level]

\* Every node of a forest.
RECURSIVE NodesOf(_)
NodesOf(list) ==
    IF list = <<>> THEN {}
    ELSE {Head(list)} \cup NodesOf(Head(list).children) \cup NodesOf(Tail(list))

Titles(list) == [i \in 1..Len(list) |-> list[i].title]
ChildTitles(node) == Range(Titles(node.children))
DescendantTitles(node) == {n.title : n \in NodesOf(node.children)}

Increasing(seq) == \A i, j \in 1..Len(seq) : i < j => seq[i] < seq[j]

Max(S) == CHOOSE x \in S : \A y \in S : y <= x

\* The nearest heading before heading i whose level is strictly smaller; 0 if none.
NearestSmaller(i) ==
    LET S == {j \in 1..(i - 1) : entries[j].level < entries[i].level}
    IN  IF S = {} THEN 0 ELSE Max(S)

\* The headings after heading i, up to the next one at its level or shallower.
Span(i) ==
    {j \in (i + 1)..Len(entries) :
        \A k \in (i + 1)..j : entries[k].level > entries[i].level}

Leaf(level, title) == TocEntry(level, title)

\* C7 as claimed: levels [3,3,2] give two top-level nodes, the first level-3
\* heading alone, then the level-2 heading with the second level-3 heading as
\* its only child.
C7_TwoRootsClaimed ==
    (TocBuilt /\ Levels = <<3, 3, 2>>) =>
        /\ Len(result) = 2
        /\ result[1] = Leaf(3, 1)
        /\ result[2] = [level |-> 2, title |-> 3, children |-> <<Leaf(3, 2)>>]

\* C7 amended: levels [3,3,2] give three top-level nodes in document order,
\* none with a child.
C7_ThreeRoots ==
    (TocBuilt /\ Levels = <<3, 3, 2>>) =>
        result = <<Leaf(3, 1), Leaf(3, 2), Leaf(2, 3)>>

C7_Witness == tocPc = "done" /\ Levels = <<3, 3, 2>> /\ Len(result) = 3

\* C8: each heading is a child of the nearest preceding heading of strictly
\* smaller level, a root when there is none; it keeps its level and title;
\* children and roots stand in document order (each was attached last). Levels
\* [1,2,3,2] give one root with two children, the first having one child.
C8_NearestSmallerParent ==
    TocBuilt =>
        /\ \A i \in 1..Len(entries) :
              LET parents == {n \in NodesOf(result) : i \in ChildTitles(n)}
              IN  IF NearestSmaller(i) = 0
                  THEN parents = {} /\ i \in Range(Titles(result))
                  ELSE /\ {n.title : n \in parents} = {NearestSmaller(i)}
                       /\ i \notin Range(Titles(result))
        /\ \A n \in NodesOf(result) :
              /\ n.level = entries[n.title].level
              /\ Increasing(Titles(n.children))
        /\ Increasing(Titles(result))
        /\ Levels = <<1, 2, 3, 2>> =>
              /\ Len(result) = 1
              /\ Len(result[1].children) = 2
              /\ Len(result[1].children[1].children) = 1
              /\ result[1].children[2].children = <<>>

C8_Witness ==
    /\ tocPc = "done" /\ Levels = <<1, 2, 3, 2>>
    /\ Len(result) = 1 /\ Titles(result[1].children) = <<2, 4>>
    /\ Titles(result[1].children[1].children) = <<3>>

\* C9 as claimed: the children of every node are exactly the headings after it
\* of strictly greater level, up to the next heading at its level or shallower.
C9_ChildrenAreSpan ==
    TocBuilt => \A n \in NodesOf(result) : ChildTitles(n) = Span(n.title)

\* C9 amended: the descendants of every node (its children, their children and
\* so on) are exactly the headings after it of strictly greater level, up to
\* the next heading at its level or shallower.
C9_DescendantsAreSpan ==
    TocBuilt => \A n \in NodesOf(result) : DescendantTitles(n) = Span(n.title)

\* A node with a child and a grandchild, and a later heading closing its span.
C9_Witness ==
    /\ tocPc = "done" /\ Len(entries) = 4
    /\ \E n \in NodesOf(result) :
          /\ ChildTitles(n) # DescendantTitles(n)
          /\ DescendantTitles(n) # (n.title + 1)..Len(entries)

EntryDivs(markup) == SelectSeq(markup, LAMBDA t : t.class = "toc-entry")

\* C10: the rendered outline has one entry per heading, with the heading's own
\* level class and title, in the order of the flat sequence.
C10_RenderKeepsOrder ==
    tocPc = "done" =>
        EntryDivs(html) =
            [i \in 1..Len(entries) |-> TocEntryDiv(entries[i].level, entries[i].title)]

\* A rendered outline three levels deep with a second root.
C10_Witness ==
    /\ tocPc = "done" /\ Levels = <<2, 3, 4, 1>>
    /\ Len(EntryDivs(html)) = 4 /\ Len(result) = 2

\* The markup of the wrapper: what generate_toc_html writes around the entries.
Wrapper == {TocOpen, TocTitle, TocContentOpen, TocClose}

\* C11: generate_toc_html returns the empty string for an empty forest, with no
\* wrapper and no title block, and for a forest that is not empty it returns
\* the entries inside the wrapper; a heading sequence that is empty gives an
\* empty forest, so the text put in place of the placeholder is empty.
C11_EmptyForestNoWrapper ==
    tocPc = "done" =>
        /\ result = <<>> => html = <<>>
        /\ result # <<>> =>
              /\ SubSeq(html, 1, 3) = <<TocOpen, TocTitle, TocContentOpen>>
              /\ Last(html) = TocClose
        /\ entries = <<>> => result = <<>> /\ Range(html) \cap Wrapper = {}
        /\ entries # <<>> => result # <<>>

\* The outline of no heading at all has been rendered.
C11_Witness == tocPc = "done" /\ entries = <<>> /\ result = <<>> /\ html = <<>>

(***************************************************************************)
(* The resolver's output, line by line                                     *)
(***************************************************************************)
\* What stands in the output for a line outside a fence that is no include.
Subst(line) ==
    IF line.kind = "newpage" THEN PageBreakDiv
    ELSE IF line.kind = "toc" THEN TocPlaceholder
    ELSE line

\* The output of a piece of a file that has no include outside a fence: one
\* output line per input line, in input order.
RECURSIVE EmittedFor(_, _)
EmittedFor(content, inside) ==
    IF content = <<>> THEN <<>>
    ELSE LET line == Head(content)
             now == IF line.kind = "fence" THEN ~inside ELSE inside
         IN  <<IF now THEN line ELSE Subst(line)>> \o EmittedFor(Tail(content), now)

\* The lines a call has taken so far.
Taken(frame) == SubSeq(frame.content, 1, frame.idx - 1)

\* Line k of the content stands outside the fences of its file.
OutsideFence(content, k) == FencesIn(SubSeq(content, 1, k)) % 2 = 0

\* C12: as long as a call has met no include outside a fence, its output has
\* one line for each line taken, in input order: the page-break marker for a
\* !newpage line outside a fence, the placeholder for a !toc line outside a
\* fence (the directive itself not being in the output at that place), and
\* the line itself, unchanged, for every other line.
C12_DirectivesReplacedInOrder ==
    \A i \in 1..Len(stack) :
        LET taken == Taken(stack[i])
            out == stack[i].full_content
        IN  IncludesOutsideFences(taken, FALSE) = <<>> =>
                /\ out = EmittedFor(taken, FALSE)
                /\ Len(out) = Len(taken)
                /\ \A k \in 1..Len(taken) :
                      IF OutsideFence(taken, k) /\ taken[k].kind = "newpage"
                      THEN out[k] = PageBreakDiv /\ out[k] # taken[k]
                      ELSE IF OutsideFence(taken, k) /\ taken[k].kind = "toc"
                      THEN out[k] = TocPlaceholder /\ out[k] # taken[k]
                      ELSE out[k] = taken[k]

\* A call has written both markers for directives outside a fence, after
\* passing the same directives through inside one.
C12_Witness ==
    /\ stack # <<>> /\ Top.idx = 8
    /\ Top.full_content =
          <<Fence, Include(<<"b.md">>), NewPage, Toc, Fence, PageBreakDiv, TocPlaceholder>>

\* The document of file f: its lines as C12 says, each include outside a fence
\* replaced by the document of the file it names from f's own directory,
\* followed by one newline.
RECURSIVE Expand(_, _, _, _)
Expand(disk, f, content, inside) ==
    IF content = <<>> THEN <<>>
    ELSE LET line == Head(content)
             now == IF line.kind = "fence" THEN ~inside ELSE inside
             here == IF now THEN <<line>>
                     ELSE IF line.kind = "include"
                          THEN LET t == Target(f, line.path)
                               IN  Expand(disk, t, disk[t], FALSE) \o <<NewLine>>
                          ELSE <<Subst(line)>>
         IN  here \o Expand(disk, f, Tail(content), now)

\* The resolver has returned Ok to run_build.
ResolverOk == PreprocessOver /\ err.kind \notin ResolverErrors

NoDuplicates(seq) == \A i, j \in 1..Len(seq) : i # j => seq[i] # seq[j]

\* An acyclic, readable build inside the root in which every file is included
\* from one place only.
IncludedOnce(disk) ==
    /\ ~HasCycle(disk) /\ AllIncludesOk(disk)
    /\ \A f \in BuildFiles(disk) :
          LET incs == IncludesOutsideFences(disk[f], FALSE)
          IN  NoDuplicates([i \in 1..Len(incs) |-> Target(f, incs[i])])
    /\ \A b, c \in BuildFiles(disk) : b # c => Edges(disk, b) \cap Edges(disk, c) = {}

\* C13: an include outside a fence names its file from the directory of the
\* file that holds the directive; the file is resolved by a recursive call on
\* the same visited set, and its whole output and one newline stand in the
\* including file's output in place of the directive line, between the output
\* of the lines before and after it.
C13_IncludeSplicedInPlace ==
    /\ \A i \in 1..Len(stack) : stack[i].file_path \in visited
    /\ ResolverOk => full_markdown = Expand(fs, MainMd, fs[MainMd], FALSE)
    /\ (PreprocessOver /\ IncludedOnce(fs)) => err.kind \notin ResolverErrors

\* main.md includes sub/e.md, which includes ../b.md: b.md is found from sub/,
\* and its text stands before the rest of e.md, which stands before the rest
\* of main.md.
C13_Witness ==
    /\ phase = "copy_assets"
    /\ fs[EMd] = <<Include(<<"..", "b.md">>), Text("e1")>>
    /\ full_markdown = <<Text("b1"), NewLine, Text("e1"), NewLine, Text("m2")>>

(***************************************************************************)
(* Files that cannot be read                                               *)
(***************************************************************************)
LaterPhases == {"copy_assets", "build_html", "build_pdf", "ok"}

\* C14: a call on a path that is not in visited (and, for an include, has
\* passed the sandbox check) whose file cannot be read returns SourceNotFound
\* with that path, at the top level as at any depth; so does the command when
\* the source is missing at its start. The error is kept as it is on the way
\* up, and the build returns no document and goes on to no later step.
C14_UnreadableIsSourceNotFound ==
    [][/\ (pc = "start" /\ ~Exists(fs, source)) =>
              /\ err'.kind = "SourceNotFound" /\ err'.path = source
              /\ pc' = "exit_err" /\ phase' = phase
       /\ (phase = "preprocess" /\ call # <<>> /\ call' = <<>>
              /\ call[1] \notin visited /\ ~Exists(fs, call[1])) =>
              /\ err'.kind = "SourceNotFound" /\ err'.path = call[1]
              /\ reads' = Append(reads, call[1])
              /\ stack' = stack /\ full_markdown' = <<>>
       /\ (phase \in {"preprocess", "err"} /\ err.kind = "SourceNotFound") =>
              /\ err' = err
              /\ full_markdown' = <<>> /\ steps' = {}
              /\ phase' \notin LaterPhases
    ]_vars

\* The source was removed while the command was watching: the rebuild's
\* top-level call could not read it.
C14_Witness ==
    /\ pc = "rebuilding" /\ phase = "err"
    /\ err.kind = "SourceNotFound" /\ err.path = source
    /\ reads = <<source>> /\ fs[MainMd] = NoFile
    /\ html_file # NoHtml

(***************************************************************************)
(* The composed body and its table of contents                             *)
(***************************************************************************)
HtmlWritten == html_file # NoHtml

IsHeadingElement(e) == HeadingLevel(e.tag) > 0

\* The heading elements of a body, in document order.
HeadingsOf(body) == SelectSeq(body, IsHeadingElement)

\* The heading lines and the placeholders of the merged document that stand
\* outside its fences, in order.
RECURSIVE HeadingsAndDirectives(_, _)
HeadingsAndDirectives(markdown, in_code) ==
    IF markdown = <<>> THEN <<>>
    ELSE LET line == Head(markdown)
             now == IF line.kind = "fence" THEN ~in_code ELSE in_code
         IN  (IF ~in_code /\ (line = TocPlaceholder \/ line.kind = "heading")
              THEN <<line>> ELSE <<>>)
                 \o HeadingsAndDirectives(Tail(markdown), now)

\* The merged document holds the placeholder of a !toc directive outside a fence.
HasTocDirective(markdown) ==
    \E i \in 1..Len(HeadingsAndDirectives(markdown, FALSE)) :
        HeadingsAndDirectives(markdown, FALSE)[i] = TocPlaceholder

\* The heading elements and the TOC blocks of a body, in order.
HeadingsAndTocs(body) == SelectSeq(body, LAMBDA e : IsHeadingElement(e) \/ e.tag = "toc")

\* The entries of a TOC that lists the headings heads, in their order.
EntriesFor(heads) ==
    [k \in 1..Len(heads) |-> TocEntryDiv(HeadingLevel(heads[k].tag), heads[k].text)]

\* The body holds no placeholder; if the headings heads are to be listed and
\* there is one, a TOC block listing them stands where each directive stood
\* among the headings: after those before it, before those after it.
TocInPlace(markdown, body, heads) ==
    LET inDoc == HeadingsAndDirectives(markdown, FALSE)
        inBody == HeadingsAndTocs(body)
    IN  /\ \A i \in 1..Len(body) : body[i] # PlaceholderComment
        /\ heads # <<>> =>
              /\ Len(inBody) = Len(inDoc)
              /\ \A i \in 1..Len(inBody) :
                    IF inDoc[i] = TocPlaceholder
                    THEN /\ inBody[i].tag = "toc"
                         /\ EntryDivs(inBody[i].toc) = EntriesFor(heads)
                    ELSE inBody[i] = Element(inDoc[i].path[1], inDoc[i].id)

\* The body of the two-file project: Title, the TOC of Title and Section A,
\* then the Section A heading.
TwoFileBody ==
    <<Element("h1", "Title"),
      TocBlock(<<TocOpen, TocTitle, TocContentOpen,
                 TocEntryDiv(1, "Title"), TocEntryDiv(2, "Section A"), TocClose>>),
      Element("h2", "Section A")>>

IsTwoFileProject ==
    /\ fs[MainMd] = <<Heading(1, "Title"), Toc, Include(<<"b.md">>)>>
    /\ fs[BMd] = <<Heading(2, "Section A")>>

\* C15 as claimed: when the merged document holds a !toc directive outside a
\* fence, the body holds no placeholder any more, the TOC block stands at the
\* place of the directive, and it lists every heading of the body, those before
\* the directive and those of included files alike, in document order and with
\* their levels; the two-file project gives Title, the TOC of Title and
\* Section A, then the Section A heading.
C15_TocListsEveryHeading ==
    (HtmlWritten /\ HasTocDirective(html_file.markdown)) =>
        /\ TocInPlace(html_file.markdown, html_file.body, HeadingsOf(html_file.body))
        /\ IsTwoFileProject => html_file.body = TwoFileBody

\* The headings whose title is not empty.
Titled(heads) == SelectSeq(heads, LAMBDA e : e.text # "")

\* C15 amended: as claimed, but the TOC lists the headings of the body whose
\* title is not empty; a heading with an empty title stands in the body and
\* not in the TOC.
C15_TocListsTitledHeadings ==
    (HtmlWritten /\ HasTocDirective(html_file.markdown)) =>
        /\ TocInPlace(html_file.markdown, html_file.body,
                      Titled(HeadingsOf(html_file.body)))
        /\ IsTwoFileProject => html_file.body = TwoFileBody

\* The two-file project has been composed.
C15_Witness == HtmlWritten /\ IsTwoFileProject /\ html_file.body = TwoFileBody

(***************************************************************************)
(* Watch mode                                                              *)
(***************************************************************************)
\* A run_build invocation is in progress.
BuildRunning == phase \in {"called", "preprocess"} \cup (LaterPhases \ {"ok"})

\* rx has lost no event: it is as it was, or longer at its end.
NothingReceived == Len(rx') >= Len(rx) /\ SubSeq(rx', 1, Len(rx)) = rx

\* C16: run_build is called only when no invocation is in progress: the one
\* before it has returned, Ok or Err, to run or to the watch loop.  While an
\* invocation is in progress no event is taken from the channel: the events
\* that arrive wait in it; the invocation in progress belongs to the first
\* build or to the one rebuild under way.
C16_BuildsSerialized ==
    [][/\ (phase' = "called" /\ phase # "called") =>
              /\ phase = "idle"
              /\ pc \in {"start", "watching"}
       /\ BuildRunning =>
              /\ pc \in {"first_build", "rebuilding"}
              /\ NothingReceived
              /\ pc' = pc
       /\ (pc = "rebuilding" /\ phase \in {"ok", "err"}) =>
              /\ NothingReceived
              /\ phase' \in {phase, "idle"}
    ]_vars

\* A change event has arrived while a rebuild is running, and waits.
C16_Witness ==
    /\ pc = "rebuilding" /\ phase = "preprocess" /\ stack # <<>>
    /\ rx # <<>> /\ Head(rx) \in {"modify", "create", "remove"}

\* C17: the visited set of a build holds the paths this build has handed to
\* the read, and no path of an earlier build: every run_build starts on an
\* empty set.  So a circular-dependency error names a path this same build has
\* read before, never a path left by an earlier build.
C17_VisitedFreshEachBuild ==
    /\ visited = Range(reads)
    /\ (phase = "preprocess" /\ reads = <<>>) => visited = {}
    /\ err.kind = "CircularDependency" =>
          err.path \in Range(reads)

\* A rebuild of a project has succeeded after the first build, reading the
\* same three paths again.
C17_Witness ==
    /\ pc = "rebuilding" /\ phase = "ok" /\ err = NoErr
    /\ Len(reads) = 3 /\ visited = Range(reads)
    /\ html_file # NoHtml

(***************************************************************************)
(* The outline's invariant                                                 *)
(***************************************************************************)
LevelsOf(list) == [i \in 1..Len(list) |-> list[i].level]

\* C18: at every point of build_toc_hierarchy, and so in the forest it
\* returns, each child's level is strictly greater than its parent's, the
\* children of each node and the roots stand in document order, and the
\* levels of the stack of open nodes increase strictly from bottom to top.
C18_OutlineNodeInvariant ==
    /\ Increasing(LevelsOf(tocStack))
    /\ Increasing(Titles(tocStack))
    /\ Increasing(Titles(result))
    /\ \A n \in NodesOf(result) \cup NodesOf(tocStack) :
          /\ \A i \in 1..Len(n.children) : n.children[i].level > n.level
          /\ Increasing(Titles(n.children))

\* In the middle of the construction: a root already returned, two nodes
\* open, the lower of them with a child already attached.
C18_Witness ==
    /\ tocPc = "loop"
    /\ result # <<>> /\ Len(tocStack) = 2 /\ tocStack[1].children # <<>>

(***************************************************************************)
(* The visited set within one build                                        *)
(***************************************************************************)
\* C19: within a build no step takes a path out of visited, neither the
\* return of a call nor its failure; a call on a path that is in the set
\* fails with the circular-dependency error before any read and leaves the
\* set as it is; a path is inserted once, with its read, so the reads of a
\* build are as many as the paths in the set and no path is read twice.
C19_VisitedOnlyGrows ==
    [][/\ phase # "called" => visited \subseteq visited'
       /\ (phase = "preprocess" /\ call # <<>> /\ call' = <<>> /\ call[1] \in visited) =>
              /\ err'.kind = "CircularDependency" /\ err'.path = call[1]
              /\ reads' = reads /\ visited' = visited /\ stack' = stack
       /\ (phase = "preprocess" /\ call # <<>> /\ call' = <<>> /\ call[1] \notin visited) =>
              /\ visited' = visited \cup {call[1]}
              /\ reads' = Append(reads, call[1])
       /\ NoDuplicates(reads') /\ Cardinality(visited') = Len(reads')
    ]_vars

\* The calls on b.md and d.md have returned, and the call on d.md made from
\* c.md has failed: all four paths are in the set.
C19_Witness ==
    /\ phase = "preprocess" /\ err.kind = "CircularDependency"
    /\ Len(stack) = 2 /\ Cardinality(visited) = 4 /\ err.path \in visited
    /\ Len(reads) = 4

(***************************************************************************)
(* The fence flag of each call                                             *)
(***************************************************************************)
\* C20: the flag of a call depends on the lines of its own file only: it is
\* clear when the call starts and set exactly when the call has taken an odd
\* number of fence lines of its file, whatever the included files have left
\* open; a call waiting for an include has its flag clear; and a !newpage or
\* !toc line that the call has just taken outside the fences of its own file
\* has been replaced, also after an include of a file that ends inside a fence.
C20_FenceFlagLocal ==
    \A i \in 1..Len(stack) :
        LET frame == stack[i]
            taken == Taken(frame)
        IN  /\ frame.in_code_block = (FencesIn(taken) % 2 = 1)
            /\ frame.idx = 1 => ~frame.in_code_block
            /\ i < Len(stack) => ~frame.in_code_block
            /\ (taken # <<>> /\ Last(taken).kind \in {"newpage", "toc"}
                  /\ OutsideFence(taken, Len(taken))) =>
                  /\ frame.full_content # <<>>
                  /\ Last(frame.full_content) = Subst(Last(taken))
                  /\ Last(frame.full_content) # Last(taken)

\* b.md ends inside the fence it opens; the !toc line that follows its
\* include in main.md has been replaced by the placeholder.
C20_Witness ==
    /\ Len(stack) = 1 /\ ~Top.in_code_block
    /\ fs[BMd] = <<Fence, Text("b1")>>
    /\ Top.full_content =
          <<Heading(1, "Title"), Fence, Text("b1"), NewLine, TocPlaceholder>>

(***************************************************************************)
(* The watch loop after a failed rebuild                                   *)
(***************************************************************************)
ChangeKinds == {"modify", "create", "remove"}

\* An earlier run_build has returned an error, and none is running.
AfterFailure == phase \in {"err", "idle"} /\ err # NoErr

====
